---- MODULE Spec2Model ----
(***************************************************************************)
(* Categories / questions REST API: validation layer, slug derivation,     *)
(* entity services over the relational store, and the HTTP route handlers. *)
(*                                                                         *)
(* Text is a sequence of UTF-16 code units, so that the slug derivation     *)
(* and the sanitizer are computed character by character.  A code unit of  *)
(* printable ASCII, tab, line feed, carriage return or form feed is the    *)
(* one-character string; any other is the string of its name, "U+00C9".    *)
(* The repertoire is ASCII, Latin-1 Supplement, the Unicode white space    *)
(* and the four characters toLowerChar lists; it has no Greek capital      *)
(* sigma, whose lower-case form depends on its position in the word.       *)
(***************************************************************************)
EXTENDS Integers, Sequences, FiniteSets, Bags, TLC

VARIABLES
    categories,  \* rows of table Categories: [id, title, slug]
    questions,   \* rows of table Questions: [id, question, answer, slug, categoryId]
    catSeq,      \* last value handed out by Categories.id autoincrement
    qSeq,        \* last value handed out by Questions.id autoincrement
    req,         \* bag of the calls suspended between their two store calls
    gone,        \* history: category slugs and question ids a delete call has removed
    fnArg,       \* input of a pure function (validators, slug derivation)
    fnRes        \* its result

vars == <<categories, questions, catSeq, qSeq, req, gone, fnArg, fnRes>>

(***************************************************************************)
(* Bounds of the model.                                                    *)
(***************************************************************************)
MaxLen == 3          \* longest enumerated text of the pure-function inputs
MaxCatSeq == 2       \* category ids handed out
MaxQSeq == 2         \* question ids handed out
MaxTableIds == 4     \* ids of the category tables that the paged read is applied to

(***************************************************************************)
(* Program constants of the validation schemas.                            *)
(***************************************************************************)
MinTextLen == 3
MaxTextLen == 1024

(***************************************************************************)
(* Default page of getCategories.                                          *)
(***************************************************************************)
DefaultLimit == 10
DefaultOffset == 0

(***************************************************************************)
(* Characters.                                                             *)
(***************************************************************************)
UpperLetters == <<"A","B","C","D","E","F","G","H","I","J","K","L","M",
                  "N","O","P","Q","R","S","T","U","V","W","X","Y","Z">>
LowerLetters == <<"a","b","c","d","e","f","g","h","i","j","k","l","m",
                  "n","o","p","q","r","s","t","u","v","w","x","y","z">>
Digits == {"0","1","2","3","4","5","6","7","8","9"}

\* \w of a JavaScript regular expression: [A-Za-z0-9_]
WordChars ==
    { UpperLetters[i] : i \in 1..26 } \cup { LowerLetters[i] : i \in 1..26 }
        \cup Digits \cup {"_"}

\* \s of a JavaScript regular expression: WhiteSpace and LineTerminator of the
\* language, which are also the characters parseInt skips before the number
WhitespaceChars ==
    {" ", "\t", "\n", "\r", "\f", "U+000B", "U+00A0", "U+1680",
     "U+2000", "U+2001", "U+2002", "U+2003", "U+2004", "U+2005", "U+2006",
     "U+2007", "U+2008", "U+2009", "U+200A",
     "U+2028", "U+2029", "U+202F", "U+205F", "U+3000", "U+FEFF"}

\* upper-case letters of Latin-1 Supplement and their lower-case forms
Latin1Upper == <<"U+00C0","U+00C1","U+00C2","U+00C3","U+00C4","U+00C5","U+00C6",
                 "U+00C7","U+00C8","U+00C9","U+00CA","U+00CB","U+00CC","U+00CD",
                 "U+00CE","U+00CF","U+00D0","U+00D1","U+00D2","U+00D3","U+00D4",
                 "U+00D5","U+00D6","U+00D8","U+00D9","U+00DA","U+00DB","U+00DC",
                 "U+00DD","U+00DE">>
Latin1Lower == <<"U+00E0","U+00E1","U+00E2","U+00E3","U+00E4","U+00E5","U+00E6",
                 "U+00E7","U+00E8","U+00E9","U+00EA","U+00EB","U+00EC","U+00ED",
                 "U+00EE","U+00EF","U+00F0","U+00F1","U+00F2","U+00F3","U+00F4",
                 "U+00F5","U+00F6","U+00F8","U+00F9","U+00FA","U+00FB","U+00FC",
                 "U+00FD","U+00FE">>

\* String.prototype.toLowerCase on one character: the code units it yields.
\* I with dot above yields "i" and the combining dot, the Kelvin sign yields "k",
\* the Angstrom sign a with ring, the Ohm sign omega.
toLowerChar(c) ==
    IF \E i \in 1..26 : UpperLetters[i] = c
    THEN <<LowerLetters[CHOOSE i \in 1..26 : UpperLetters[i] = c]>>
    ELSE IF \E i \in 1..Len(Latin1Upper) : Latin1Upper[i] = c
    THEN <<Latin1Lower[CHOOSE i \in 1..Len(Latin1Upper) : Latin1Upper[i] = c]>>
    ELSE IF c = "U+0130" THEN <<"i", "U+0307">>
    ELSE IF c = "U+212A" THEN <<"k">>
    ELSE IF c = "U+212B" THEN <<"U+00E5">>
    ELSE IF c = "U+2126" THEN <<"U+03C9">>
    ELSE <<c>>

RECURSIVE toLowerCase(_)
toLowerCase(s) ==
    IF s = <<>> THEN <<>> ELSE toLowerChar(Head(s)) \o toLowerCase(Tail(s))

RECURSIVE dropLeadingWhitespace(_)
dropLeadingWhitespace(s) ==
    IF s # <<>> /\ Head(s) \in WhitespaceChars
    THEN dropLeadingWhitespace(Tail(s))
    ELSE s

\* .replace(/\s+/g, '-'): every maximal run of whitespace becomes one hyphen
RECURSIVE replaceWhitespaceRuns(_)
replaceWhitespaceRuns(s) ==
    IF s = <<>> THEN <<>>
    ELSE IF Head(s) \in WhitespaceChars
         THEN <<"-">> \o replaceWhitespaceRuns(dropLeadingWhitespace(Tail(s)))
         ELSE <<Head(s)>> \o replaceWhitespaceRuns(Tail(s))

IsSlugChar(c) == c \in WordChars \/ c = "-"

\* .replace(/[^\w-]+/g, ''): every character that is no word character or hyphen goes
stripNonWord(s) == SelectSeq(s, IsSlugChar)

\* faulty variant: whitespace runs are kept one hyphen per whitespace character
slugifyPerChar(s) ==
    LET lower == toLowerCase(s)
    IN  stripNonWord([i \in 1..Len(lower) |->
            IF lower[i] \in WhitespaceChars THEN "-" ELSE lower[i]])

\* text.toLowerCase().replace(/\s+/g, '-').replace(/[^\w-]+/g, '')
slugify(s) == stripNonWord(replaceWhitespaceRuns(toLowerCase(s)))

(***************************************************************************)
(* xss(text) with the library's default options.  Text outside tags has    *)
(* "<" and ">" escaped; a tag whose name is not on the white list is       *)
(* escaped as a whole.  The texts of this model carry no white-listed tag  *)
(* name, quote or comment, so the filter is the character-wise escape.     *)
(***************************************************************************)
escapeChar(c) ==
    IF c = "<" THEN <<"&","l","t",";">>
    ELSE IF c = ">" THEN <<"&","g","t",";">>
    ELSE <<c>>

RECURSIVE escapeHtml(_)
escapeHtml(s) ==
    IF s = <<>> THEN <<>> ELSE escapeChar(Head(s)) \o escapeHtml(Tail(s))

xss(s) == escapeHtml(s)

(***************************************************************************)
(* Request payloads: the value c.req.json() yields, of unknown type.       *)
(*   [t |-> "string", v |-> text]                                          *)
(*   [t |-> "number", num |-> n, den |-> d]    the number n/d              *)
(*   [t |-> "object", f |-> key :> value ...]                              *)
(*   [t |-> "null"]                                                        *)
(***************************************************************************)
JString(s) == [t |-> "string", v |-> s]
JNumber(n, d) == [t |-> "number", num |-> n, den |-> d]
JObject(f) == [t |-> "object", f |-> f]
JNull == [t |-> "null"]
EmptyObject == JObject(<<>>)

Has(data, key) == key \in DOMAIN data.f

\* Number.isInteger
IsInteger(v) == v.t = "number" /\ v.num % v.den = 0

\* z.string().min(3).max(1024)
zText(v) == v.t = "string" /\ Len(v.v) >= MinTextLen /\ Len(v.v) <= MaxTextLen

\* z.number()
zNumber(v) == v.t = "number"

\* what z.object keeps of an accepted payload: the keys of the schema
Strip(data, keys) == [k \in (DOMAIN data.f) \cap keys |-> data.f[k]]

Invalid == [success |-> FALSE]
Valid(d) == [success |-> TRUE, data |-> d]

CategoryToCreateSchema(data) ==
    /\ data.t = "object"
    /\ Has(data, "title")
    /\ zText(data.f["title"])

\* the update schema repeats the create schema: title is required
CategoryToUpdateSchema(data) ==
    /\ data.t = "object"
    /\ Has(data, "title")
    /\ zText(data.f["title"])

QuestionToCreateSchema(data) ==
    /\ data.t = "object"
    /\ Has(data, "question") /\ zText(data.f["question"])
    /\ Has(data, "answer") /\ zText(data.f["answer"])
    /\ Has(data, "categoryId") /\ zNumber(data.f["categoryId"])

QuestionToUpdateSchema(data) ==
    /\ data.t = "object"
    /\ Has(data, "question") => zText(data.f["question"])
    /\ Has(data, "answer") => zText(data.f["answer"])
    /\ Has(data, "categoryId") => zNumber(data.f["categoryId"])

validateCategoryForCreate(data) ==
    IF CategoryToCreateSchema(data) THEN Valid(Strip(data, {"title"})) ELSE Invalid

validateCategoryForUpdate(data) ==
    IF CategoryToUpdateSchema(data) THEN Valid(Strip(data, {"title"})) ELSE Invalid

QuestionKeys == {"question", "answer", "categoryId"}

validateQuestionForCreate(data) ==
    IF QuestionToCreateSchema(data) THEN Valid(Strip(data, QuestionKeys)) ELSE Invalid

validateQuestionForUpdate(data) ==
    IF QuestionToUpdateSchema(data) THEN Valid(Strip(data, QuestionKeys)) ELSE Invalid

(***************************************************************************)
(* Inputs of the pure functions.                                           *)
(***************************************************************************)
Alphabet == {"A", "b", " ", "\t", "\r", "?", "-", "_", "<", "1", "U+00C9", "U+0130"}

TextsUpTo(n) == UNION { [1..k -> Alphabet] : k \in 0..n }

Rep(c, n) == [i \in 1..n |-> c]

WhatIsHtml == <<"W","h","a","t"," ","i","s"," ","H","T","M","L","?">>
MultipleSpaces ==
    <<" "," ","M","u","l","t","i","p","l","e"," "," "," ","S","p","a","c","e","s"," "," ">>
ExampleTexts == {WhatIsHtml, MultipleSpaces}

\* texts at the two ends of the length constraint
BoundaryTexts ==
    { Rep("b", n) : n \in {0, MinTextLen - 1, MinTextLen, MaxTextLen, MaxTextLen + 1} }

FieldValues == { JString(s) : s \in BoundaryTexts } \cup {JNumber(5, 1)}
IdValues == {JNumber(1, 1), JNumber(3, 2), JNumber(0, 1), JString(<<"1">>)}

\* objects over `keys`, each key absent or drawn from vals[key]
Objects(keys, vals) ==
    UNION { { JObject(f) : f \in [present -> UNION { vals[k] : k \in present }] }
            : present \in SUBSET keys }

WellTyped(o, vals) == \A k \in DOMAIN o.f : o.f[k] \in vals[k]

CategoryPayloads ==
    {JNull} \cup Objects({"title"}, [k \in {"title"} |-> FieldValues])

QuestionVals ==
    [k \in QuestionKeys |-> IF k = "categoryId" THEN IdValues ELSE FieldValues]

QuestionPayloads ==
    {JNull} \cup { o \in Objects(QuestionKeys, QuestionVals) : WellTyped(o, QuestionVals) }

NoResult == [done |-> FALSE]
Result(v) == [done |-> TRUE, val |-> v]

FnInputs ==
    { [fn |-> "slugify", arg |-> s] : s \in TextsUpTo(MaxLen) \cup ExampleTexts }
    \cup { [fn |-> "xss", arg |-> s] : s \in TextsUpTo(MaxLen) \cup ExampleTexts }
    \cup { [fn |-> "validateCategoryForCreate", arg |-> d] : d \in CategoryPayloads }
    \cup { [fn |-> "validateCategoryForUpdate", arg |-> d] : d \in CategoryPayloads }
    \cup { [fn |-> "validateQuestionForCreate", arg |-> d] : d \in QuestionPayloads }
    \cup { [fn |-> "validateQuestionForUpdate", arg |-> d] : d \in QuestionPayloads }

Apply(name, value) ==
    /\ fnArg.fn = name
    /\ fnRes = NoResult
    /\ fnRes' = Result(value)
    /\ UNCHANGED <<categories, questions, catSeq, qSeq, req, gone, fnArg>>

ApplySlugify == Apply("slugify", slugify(fnArg.arg))
ApplyXss == Apply("xss", xss(fnArg.arg))
ApplyValidateCategoryForCreate ==
    Apply("validateCategoryForCreate", validateCategoryForCreate(fnArg.arg))
ApplyValidateCategoryForUpdate ==
    Apply("validateCategoryForUpdate", validateCategoryForUpdate(fnArg.arg))
ApplyValidateQuestionForCreate ==
    Apply("validateQuestionForCreate", validateQuestionForCreate(fnArg.arg))
ApplyValidateQuestionForUpdate ==
    Apply("validateQuestionForUpdate", validateQuestionForUpdate(fnArg.arg))

(***************************************************************************)
(* The relational store behind the ORM client: two tables, unique indexes  *)
(* on Categories.title, Categories.slug and Questions.slug, and the        *)
(* foreign key Questions.categoryId -> Categories.id (ON DELETE RESTRICT). *)
(***************************************************************************)
Null == [kind |-> "null"]
Threw(code) == [kind |-> "error", code |-> code]
Returned(v) == [kind |-> "value", val |-> v]

\* findUnique({ where: { slug } }) on Categories
FindCategory(slug) ==
    IF \E c \in categories : c.slug = slug
    THEN Returned(CHOOSE c \in categories : c.slug = slug)
    ELSE Null

\* findUnique({ where: { id } }) on Questions
FindQuestion(id) ==
    IF \E q \in questions : q.id = id
    THEN Returned(CHOOSE q \in questions : q.id = id)
    ELSE Null

\* faulty variant: no unique index on the table
CategoryUniqueViolationNone(rows, row) == FALSE

\* @unique on Categories.title and Categories.slug: another row holds the title or the slug
CategoryUniqueViolation(rows, row) ==
    \E c \in rows : c.id # row.id /\ (c.title = row.title \/ c.slug = row.slug)

\* @unique on Questions.slug
QuestionUniqueViolation(rows, row) ==
    \E q \in rows : q.id # row.id /\ q.slug = row.slug

\* faulty variant: no foreign key on Questions.categoryId
ForeignKeyViolationNone(cats, categoryId) == FALSE

\* Questions_categoryId_fkey: the referenced category must exist
ForeignKeyViolation(cats, categoryId) ==
    ~ \E c \in cats : c.id = categoryId

\* ON DELETE RESTRICT: a question still references the category
StillReferenced(qs, categoryId) ==
    \E q \in qs : q.categoryId = categoryId

\* categories.create({ data }): the outcome and the row it would insert
CategoriesCreate(data) ==
    LET row == [id |-> catSeq + 1, title |-> data.title, slug |-> data.slug]
    IN  IF CategoryUniqueViolation(categories, row) THEN Threw("P2002")
        ELSE Returned(row)

\* faulty variant: the update writes the data under a fresh id
CategoriesUpdateFreshId(slug, data) ==
    IF ~ \E c \in categories : c.slug = slug THEN Threw("P2025")
    ELSE Returned([id |-> catSeq + 1, title |-> data.title, slug |-> data.slug])

\* categories.update({ where: { slug }, data })
CategoriesUpdate(slug, data) ==
    IF ~ \E c \in categories : c.slug = slug THEN Threw("P2025")
    ELSE LET old == CHOOSE c \in categories : c.slug = slug
             row == [id |-> old.id, title |-> data.title, slug |-> data.slug]
         IN  IF CategoryUniqueViolation(categories, row) THEN Threw("P2002")
             ELSE Returned(row)

\* faulty variant: deleting a row that is not there returns null
CategoriesDeleteMissingIsNull(slug) ==
    IF ~ \E c \in categories : c.slug = slug THEN Null
    ELSE LET old == CHOOSE c \in categories : c.slug = slug
         IN  IF \E q \in questions : q.categoryId = old.id THEN Threw("P2003")
             ELSE Returned(old)

\* faulty variant: the first row of the table is deleted, whatever its slug
CategoriesDeleteAnyRow(slug) ==
    IF categories = {} THEN Threw("P2025")
    ELSE Returned(CHOOSE c \in categories : \A d \in categories : c.id <= d.id)

\* categories.delete({ where: { slug } })
CategoriesDelete(slug) ==
    IF ~ \E c \in categories : c.slug = slug THEN Threw("P2025")
    ELSE LET old == CHOOSE c \in categories : c.slug = slug
         IN  IF StillReferenced(questions, old.id) THEN Threw("P2003")
             ELSE Returned(old)

\* the integer a number payload denotes, once the client has accepted it as Int
IntOf(v) == v.num \div v.den

\* questions.create({ data }); the client rejects a non-integer categoryId itself
QuestionsCreate(data) ==
    IF ~ IsInteger(data.categoryId) THEN Threw("ValidationError")
    ELSE LET row == [id |-> qSeq + 1, question |-> data.question, answer |-> data.answer,
                     slug |-> data.slug, categoryId |-> IntOf(data.categoryId)]
         IN  IF QuestionUniqueViolation(questions, row) THEN Threw("P2002")
             ELSE IF ForeignKeyViolation(categories, row.categoryId) THEN Threw("P2003")
             ELSE Returned(row)

\* questions.update({ where: { id }, data })
QuestionsUpdate(id, data) ==
    IF ~ IsInteger(data.categoryId) THEN Threw("ValidationError")
    ELSE IF ~ \E q \in questions : q.id = id THEN Threw("P2025")
    ELSE LET row == [id |-> id, question |-> data.question, answer |-> data.answer,
                     slug |-> data.slug, categoryId |-> IntOf(data.categoryId)]
         IN  IF QuestionUniqueViolation(questions, row) THEN Threw("P2002")
             ELSE IF ForeignKeyViolation(categories, row.categoryId) THEN Threw("P2003")
             ELSE Returned(row)

\* questions.delete({ where: { id } })
QuestionsDelete(id) ==
    IF ~ \E q \in questions : q.id = id THEN Threw("P2025")
    ELSE Returned(CHOOSE q \in questions : q.id = id)

\* rows ordered by ascending id (orderBy: { id: 'asc' })
RECURSIVE SortById(_)
SortById(rows) ==
    IF rows = {} THEN <<>>
    ELSE LET first == CHOOSE r \in rows : \A o \in rows : r.id <= o.id
         IN  <<first>> \o SortById(rows \ {first})

\* questions.findMany({ where: { categoryId }, orderBy: { id: 'asc' } })
FindQuestionsOfCategory(categoryId) ==
    SortById({ q \in questions : q.categoryId = categoryId })

\* faulty variant: findMany without skip
CategoriesFindManyNoSkip(skip, take) ==
    LET rows == SortById(categories)
    IN  SubSeq(rows, 1, IF take < Len(rows) THEN take ELSE Len(rows))

\* categories.findMany({ skip, take, orderBy: { id: 'asc' } }), for skip, take >= 0
CategoriesFindMany(skip, take) ==
    LET rows == SortById(categories)
        last == IF skip + take < Len(rows) THEN skip + take ELSE Len(rows)
    IN  SubSeq(rows, skip + 1, last)

\* questions.findMany({ orderBy: { id: 'asc' } })
QuestionsFindMany == SortById(questions)

(***************************************************************************)
(* Entity services: what each call hands to the store.                     *)
(***************************************************************************)
\* JavaScript truthiness of a validated field
Truthy(changes, key) ==
    /\ key \in DOMAIN changes
    /\ changes[key].t = "string" => Len(changes[key].v) > 0
    /\ changes[key].t = "number" => changes[key].num # 0

\* faulty variant: the title itself is stored as the slug
createCategoryDataTitleAsSlug(categoryToCreate) ==
    [title |-> categoryToCreate["title"].v, slug |-> categoryToCreate["title"].v]

\* createCategory: data of prisma.categories.create
createCategoryData(categoryToCreate) ==
    [title |-> categoryToCreate["title"].v,
     slug |-> slugify(categoryToCreate["title"].v)]

\* updateCategory: data of prisma.categories.update
updateCategoryData(changes, existing) ==
    [title |-> IF "title" \in DOMAIN changes THEN changes["title"].v ELSE existing.title,
     slug |-> IF Truthy(changes, "title") THEN slugify(changes["title"].v)
              ELSE existing.slug]

\* createQuestion: data of prisma.questions.create; the slug comes from data.question
createQuestionData(data) ==
    [question |-> xss(data["question"].v),
     answer |-> xss(data["answer"].v),
     categoryId |-> data["categoryId"],
     slug |-> slugify(data["question"].v)]

\* faulty variant: an absent answer is written as the empty text
updateQuestionDataDropsAnswer(changes, existing) ==
    LET safeQuestion == IF Truthy(changes, "question") THEN xss(changes["question"].v)
                        ELSE existing.question
    IN  [question |-> safeQuestion,
         answer |-> IF Truthy(changes, "answer") THEN xss(changes["answer"].v) ELSE <<>>,
         categoryId |-> IF "categoryId" \in DOMAIN changes THEN changes["categoryId"]
                        ELSE JNumber(existing.categoryId, 1),
         slug |-> IF Truthy(changes, "question") THEN slugify(safeQuestion)
                  ELSE existing.slug]

\* updateQuestion: data of prisma.questions.update
updateQuestionData(changes, existing) ==
    LET safeQuestion == IF Truthy(changes, "question") THEN xss(changes["question"].v)
                        ELSE existing.question
        safeAnswer == IF Truthy(changes, "answer") THEN xss(changes["answer"].v)
                      ELSE existing.answer
    IN  [question |-> safeQuestion,
         answer |-> safeAnswer,
         categoryId |-> IF "categoryId" \in DOMAIN changes THEN changes["categoryId"]
                        ELSE JNumber(existing.categoryId, 1),
         slug |-> IF Truthy(changes, "question") THEN slugify(safeQuestion)
                  ELSE existing.slug]

(***************************************************************************)
(* Entity services: what each call returns, or throws, in the current      *)
(* state of the store.  A call that looks a row up and then mutates it is  *)
(* two store calls; between them it holds the arguments of the second,     *)
(* computed from the row it found, and the second is evaluated when the    *)
(* store executes it.                                                      *)
(***************************************************************************)
getCategories(limit, offset) == CategoriesFindMany(offset, limit)

getQuestions == QuestionsFindMany

getCategoryBySlug(slug) == FindCategory(slug)

getQuestionById(id) == FindQuestion(id)

createCategory(categoryToCreate) == CategoriesCreate(createCategoryData(categoryToCreate))

createQuestion(data) == QuestionsCreate(createQuestionData(data))

\* updateCategory: prisma.categories.update({ where: { slug }, data })
updateCategoryWrite(slug, data) == CategoriesUpdate(slug, data)

\* deleteCategory after its lookup found a row
deleteCategoryWrite(slug) == CategoriesDelete(slug)

\* updateQuestion: prisma.questions.update({ where: { id }, data })
updateQuestionWrite(id, data) == QuestionsUpdate(id, data)

\* deleteQuestion after its lookup found a row
deleteQuestionWrite(id) == QuestionsDelete(id)

\* faulty variant: the questions of every category are returned
getQuestionByCategorySlugReadAll(categoryId) == Returned(SortById(questions))

\* getQuestionByCategorySlug after its lookup found the category with this id
getQuestionByCategorySlugRead(categoryId) == Returned(FindQuestionsOfCategory(categoryId))

(***************************************************************************)
(* The same calls when no other request runs between their two store       *)
(* calls: the whole call, evaluated in one state of the store.             *)
(***************************************************************************)
updateCategory(slug, changes) ==
    LET existing == getCategoryBySlug(slug)
    IN  IF existing = Null THEN Null
        ELSE updateCategoryWrite(slug, updateCategoryData(changes, existing.val))

deleteCategory(slug) ==
    IF getCategoryBySlug(slug) = Null THEN Null ELSE deleteCategoryWrite(slug)

updateQuestion(id, changes) ==
    LET existing == getQuestionById(id)
    IN  IF existing = Null THEN Null
        ELSE updateQuestionWrite(id, updateQuestionData(changes, existing.val))

deleteQuestion(id) ==
    IF getQuestionById(id) = Null THEN Null ELSE deleteQuestionWrite(id)

getQuestionByCategorySlug(slug) ==
    LET category == getCategoryBySlug(slug)
    IN  IF category = Null THEN Null
        ELSE getQuestionByCategorySlugRead(category.val.id)

(***************************************************************************)
(* Requests of the model.                                                  *)
(***************************************************************************)
Slots == {"r1", "r2"}          \* two requests may be in flight at once

TitleWeb == <<"W","e","b">>
TitleLower == <<"w","e","b">>
TitleAB == <<"A"," ","b">>
Titles == {TitleWeb, TitleLower, TitleAB}
TooShort == <<"a","b">>

QTextRaw == <<"x","<","w">>                    \* sanitized to x&lt;w
QTextEscaped == <<"x","&","l","t",";","w">>    \* already what the sanitizer yields
QTextPlain == <<"w","h","y">>
AnswerYes == <<"y","e","s">>
AnswerRaw == <<"y","<","s">>

BadJson == [t |-> "unparsable"]

SlugParams == { slugify(t) : t \in Titles }

CategoryBodies ==
    {BadJson, EmptyObject, JObject("title" :> JString(TooShort))}
        \cup { JObject("title" :> JString(t)) : t \in Titles }

CategoryIdValues == { JNumber(i, 1) : i \in 1..MaxCatSeq } \cup {JNumber(3, 2)}

QuestionCreateBodies ==
    {BadJson, EmptyObject}
        \cup { JObject("question" :> JString(q) @@ "answer" :> JString(AnswerYes)
                       @@ "categoryId" :> c)
               : q \in {QTextRaw, QTextPlain}, c \in CategoryIdValues }

QuestionUpdateBodies ==
    {BadJson, EmptyObject, JObject("answer" :> JString(TooShort))}
        \cup { JObject("question" :> JString(QTextEscaped)),
               JObject("question" :> JString(QTextPlain) @@ "answer" :> JString(AnswerRaw)) }
        \cup { JObject("categoryId" :> JNumber(i, 1)) : i \in 1..MaxCatSeq }

\* the :id path segment, as text
IdSegments ==
    { <<"1">>, <<"2">>, <<"1","a","b","c">>, <<"a","b","c">> }

(***************************************************************************)
(* parseInt(text, 10): leading whitespace is skipped, then the longest run *)
(* of decimal digits is read; NaN when there is none.                      *)
(***************************************************************************)
DigitSeq == <<"0","1","2","3","4","5","6","7","8","9">>
DigitValue(c) == (CHOOSE i \in 1..10 : DigitSeq[i] = c) - 1

RECURSIVE ReadDigits(_, _)
ReadDigits(s, acc) ==
    IF s # <<>> /\ Head(s) \in Digits
    THEN ReadDigits(Tail(s), acc * 10 + DigitValue(Head(s)))
    ELSE acc

NaN == [nan |-> TRUE]

parseInt(s) ==
    LET t == dropLeadingWhitespace(s)
        sign == IF t # <<>> /\ Head(t) = "-" THEN -1 ELSE 1
        u == IF t # <<>> /\ Head(t) \in {"-", "+"} THEN Tail(t) ELSE t
    IN  IF u # <<>> /\ Head(u) \in Digits
        THEN [nan |-> FALSE, n |-> sign * ReadDigits(u, 0)]
        ELSE NaN

(***************************************************************************)
(* Route handlers: the answer of each route in the current state.          *)
(***************************************************************************)
Succeeded(r) == r.kind = "value"

Answer(status) == [status |-> status]
AnswerWith(status, body) == [status |-> status, body |-> body]

\* app.get('/categories'): getCategories() with its default page
GetCategoriesResponse == AnswerWith(200, getCategories(DefaultLimit, DefaultOffset))

\* app.get('/questions')
GetQuestionsResponse == AnswerWith(200, getQuestions)

\* app.get('/categories/:slug')
GetCategoryResponse(slug) ==
    LET category == getCategoryBySlug(slug)
    IN  IF category = Null THEN Answer(404) ELSE AnswerWith(200, category.val)

\* app.post('/categories')
PostCategoryResponse(body) ==
    IF body = BadJson \/ ~ validateCategoryForCreate(body).success THEN Answer(400)
    ELSE LET created == createCategory(validateCategoryForCreate(body).data)
         IN  IF Succeeded(created) THEN AnswerWith(201, created.val) ELSE Answer(500)

\* app.patch('/categories/:slug'): the body is rejected before updateCategory is called
PatchCategoryRejects(body) ==
    body = BadJson \/ ~ validateCategoryForUpdate(body).success

\* app.patch('/categories/:slug') once updateCategory has returned or thrown
PatchCategoryResponse(updated) ==
    IF updated = Null THEN Answer(404)
    ELSE IF Succeeded(updated) THEN AnswerWith(200, updated.val)
    ELSE Answer(500)

\* app.delete('/categories/:slug') once deleteCategory has returned or thrown
DeleteCategoryResponse(deleted) ==
    IF deleted = Null THEN Answer(404)
    ELSE IF Succeeded(deleted) THEN Answer(204)
    ELSE Answer(500)

\* app.get('/questions/:id')
GetQuestionResponse(seg) ==
    LET id == parseInt(seg)
    IN  IF id = NaN THEN Answer(400)
        ELSE LET question == getQuestionById(id.n)
             IN  IF question = Null THEN Answer(404) ELSE AnswerWith(200, question.val)

\* app.post('/questions')
PostQuestionResponse(body) ==
    IF body = BadJson \/ ~ validateQuestionForCreate(body).success THEN Answer(400)
    ELSE LET created == createQuestion(validateQuestionForCreate(body).data)
         IN  IF Succeeded(created) THEN AnswerWith(201, created.val) ELSE Answer(500)

\* faulty variant: only the id is checked before updateQuestion is called
PatchQuestionRejectsBadIdOnly(seg, body) == parseInt(seg) = NaN

\* app.patch('/questions/:id'): the request is rejected before updateQuestion is called
PatchQuestionRejects(seg, body) ==
    parseInt(seg) = NaN \/ body = BadJson \/ ~ validateQuestionForUpdate(body).success

\* app.patch('/questions/:id') once updateQuestion has returned or thrown
PatchQuestionResponse(updated) ==
    IF updated = Null THEN Answer(404)
    ELSE IF Succeeded(updated) THEN AnswerWith(200, updated.val)
    ELSE Answer(500)

\* app.delete('/questions/:id') once deleteQuestion has returned or thrown
DeleteQuestionResponse(deleted) ==
    IF deleted = Null THEN Answer(404)
    ELSE IF Succeeded(deleted) THEN Answer(204)
    ELSE Answer(500)

\* app.get('/categories/:slug/questions') once getQuestionByCategorySlug has returned
GetCategoryQuestionsResponse(found) ==
    IF found = Null THEN Answer(404) ELSE AnswerWith(200, found.val)

(***************************************************************************)
(* The catch block of each handler: every one answers 500, and every one   *)
(* but that of app.post('/categories') calls console.error first.          *)
(***************************************************************************)
Routes ==
    {"GET /categories", "GET /categories/:slug", "POST /categories",
     "PATCH /categories/:slug", "DELETE /categories/:slug",
     "GET /questions", "GET /questions/:id", "POST /questions",
     "PATCH /questions/:id", "DELETE /questions/:id", "GET /categories/:slug/questions"}

CatchLogs(route) == route # "POST /categories"

Caught(route) == [status |-> 500, logged |-> CatchLogs(route)]

(***************************************************************************)
(* The answer of a two-step handler when no other request runs between     *)
(* its store calls.                                                        *)
(***************************************************************************)
PatchCategoryRoute(slug, body) ==
    IF PatchCategoryRejects(body) THEN Answer(400)
    ELSE PatchCategoryResponse(updateCategory(slug, validateCategoryForUpdate(body).data))

DeleteCategoryRoute(slug) == DeleteCategoryResponse(deleteCategory(slug))

PatchQuestionRoute(seg, body) ==
    IF PatchQuestionRejects(seg, body) THEN Answer(400)
    ELSE PatchQuestionResponse(
             updateQuestion(parseInt(seg).n, validateQuestionForUpdate(body).data))

DeleteQuestionRoute(seg) ==
    IF parseInt(seg) = NaN THEN Answer(400)
    ELSE DeleteQuestionResponse(deleteQuestion(parseInt(seg).n))

GetCategoryQuestionsRoute(slug) ==
    GetCategoryQuestionsResponse(getQuestionByCategorySlug(slug))

(***************************************************************************)
(* Steps.  A request takes a free slot.  A handler with one store call is  *)
(* one step.  A handler whose service looks a row up and then mutates it   *)
(* is two steps: after the first the call is suspended, the lookup         *)
(* answered and the second store call issued but not yet executed; req     *)
(* keeps the second call's arguments, the only locals still live there.    *)
(* Requests carry no identity, so req is a bag of suspended calls.         *)
(***************************************************************************)
SlotFree == BagCardinality(req) < Cardinality(Slots)

Suspended(pc) == { r \in BagToSet(req) : r.pc = pc }

Suspend(locals) == req' = req (+) SetToBag({locals})
Resume(r) == req' = req (-) SetToBag({r})

\* app.get('/categories'): one read, the store is left alone
GetCategories ==
    /\ SlotFree
    /\ GetCategoriesResponse.status = 200
    /\ UNCHANGED vars

\* app.get('/questions'): one read, the store is left alone
GetQuestions ==
    /\ SlotFree
    /\ GetQuestionsResponse.status = 200
    /\ UNCHANGED vars

\* app.get('/categories/:slug'): one read, the store is left alone
GetCategory(slug) ==
    /\ SlotFree
    /\ GetCategoryResponse(slug).status \in {200, 404}
    /\ UNCHANGED vars

\* app.post('/categories') and createCategory
PostCategory(body) ==
    /\ SlotFree
    /\ IF PostCategoryResponse(body).status = 400
       THEN UNCHANGED <<categories, catSeq>>
       ELSE /\ catSeq < MaxCatSeq
            /\ LET created == createCategory(validateCategoryForCreate(body).data)
               IN  categories' = IF Succeeded(created) THEN categories \cup {created.val}
                                 ELSE categories
            /\ catSeq' = catSeq + 1
    /\ UNCHANGED <<questions, qSeq, req, gone, fnArg, fnRes>>

\* app.patch('/categories/:slug') and updateCategory up to its lookup
PatchCategoryBegin(slug, body) ==
    /\ SlotFree
    /\ IF PatchCategoryRejects(body) \/ getCategoryBySlug(slug) = Null
       THEN UNCHANGED req
       ELSE Suspend([pc |-> "updateCategory", slug |-> slug,
                        data |-> updateCategoryData(validateCategoryForUpdate(body).data,
                                                    getCategoryBySlug(slug).val)])
    /\ UNCHANGED <<categories, questions, catSeq, qSeq, gone, fnArg, fnRes>>

\* updateCategory from prisma.categories.update on
PatchCategoryEnd(r) ==
    /\ r \in Suspended("updateCategory")
    /\ LET updated == updateCategoryWrite(r.slug, r.data)
       IN  categories' =
               IF Succeeded(updated)
               THEN { c \in categories : c.id # updated.val.id } \cup {updated.val}
               ELSE categories
    /\ Resume(r)
    /\ UNCHANGED <<questions, catSeq, qSeq, gone, fnArg, fnRes>>

\* app.delete('/categories/:slug') and deleteCategory up to its lookup
DeleteCategoryBegin(slug) ==
    /\ SlotFree
    /\ IF getCategoryBySlug(slug) = Null
       THEN UNCHANGED req
       ELSE Suspend([pc |-> "deleteCategory", slug |-> slug])
    /\ UNCHANGED <<categories, questions, catSeq, qSeq, gone, fnArg, fnRes>>

\* deleteCategory from prisma.categories.delete on
DeleteCategoryEnd(r) ==
    /\ r \in Suspended("deleteCategory")
    /\ LET deleted == deleteCategoryWrite(r.slug)
       IN  /\ categories' = IF Succeeded(deleted) THEN categories \ {deleted.val}
                            ELSE categories
           /\ gone' = IF Succeeded(deleted) THEN gone \cup {[slug |-> r.slug]} ELSE gone
    /\ Resume(r)
    /\ UNCHANGED <<questions, catSeq, qSeq, fnArg, fnRes>>

\* app.get('/questions/:id'): at most one read, the store is left alone
GetQuestion(seg) ==
    /\ SlotFree
    /\ GetQuestionResponse(seg).status \in {200, 400, 404}
    /\ UNCHANGED vars

\* whether the insert reaches the table (and draws an id) or is refused by the client
ReachesStore(r) == r # Threw("ValidationError")

\* app.post('/questions') and createQuestion
PostQuestion(body) ==
    /\ SlotFree
    /\ IF PostQuestionResponse(body).status = 400
       THEN UNCHANGED <<questions, qSeq>>
       ELSE LET created == createQuestion(validateQuestionForCreate(body).data)
            IN  /\ ReachesStore(created) => qSeq < MaxQSeq
                /\ questions' = IF Succeeded(created) THEN questions \cup {created.val}
                                ELSE questions
                /\ qSeq' = IF ReachesStore(created) THEN qSeq + 1 ELSE qSeq
    /\ UNCHANGED <<categories, catSeq, req, gone, fnArg, fnRes>>

\* app.patch('/questions/:id') and updateQuestion up to its lookup
PatchQuestionBegin(seg, body) ==
    /\ SlotFree
    /\ IF PatchQuestionRejects(seg, body) \/ getQuestionById(parseInt(seg).n) = Null
       THEN UNCHANGED req
       ELSE Suspend([pc |-> "updateQuestion", id |-> parseInt(seg).n,
                        data |-> updateQuestionData(
                                     validateQuestionForUpdate(body).data,
                                     getQuestionById(parseInt(seg).n).val)])
    /\ UNCHANGED <<categories, questions, catSeq, qSeq, gone, fnArg, fnRes>>

\* updateQuestion from prisma.questions.update on
PatchQuestionEnd(r) ==
    /\ r \in Suspended("updateQuestion")
    /\ LET updated == updateQuestionWrite(r.id, r.data)
       IN  questions' =
               IF Succeeded(updated)
               THEN { q \in questions : q.id # updated.val.id } \cup {updated.val}
               ELSE questions
    /\ Resume(r)
    /\ UNCHANGED <<categories, catSeq, qSeq, gone, fnArg, fnRes>>

\* app.delete('/questions/:id') and deleteQuestion up to its lookup
DeleteQuestionBegin(seg) ==
    /\ SlotFree
    /\ IF parseInt(seg) = NaN \/ getQuestionById(parseInt(seg).n) = Null
       THEN UNCHANGED req
       ELSE Suspend([pc |-> "deleteQuestion", id |-> parseInt(seg).n])
    /\ UNCHANGED <<categories, questions, catSeq, qSeq, gone, fnArg, fnRes>>

\* deleteQuestion from prisma.questions.delete on
DeleteQuestionEnd(r) ==
    /\ r \in Suspended("deleteQuestion")
    /\ LET deleted == deleteQuestionWrite(r.id)
       IN  /\ questions' = IF Succeeded(deleted) THEN questions \ {deleted.val}
                           ELSE questions
           /\ gone' = IF Succeeded(deleted) THEN gone \cup {[id |-> r.id]} ELSE gone
    /\ Resume(r)
    /\ UNCHANGED <<categories, catSeq, qSeq, fnArg, fnRes>>

\* app.get('/categories/:slug/questions') up to the lookup of the category
GetCategoryQuestionsBegin(slug) ==
    /\ SlotFree
    /\ IF getCategoryBySlug(slug) = Null
       THEN UNCHANGED req
       ELSE Suspend([pc |-> "getQuestionByCategorySlug",
                        categoryId |-> getCategoryBySlug(slug).val.id])
    /\ UNCHANGED <<categories, questions, catSeq, qSeq, gone, fnArg, fnRes>>

\* getQuestionByCategorySlug from prisma.questions.findMany on
GetCategoryQuestionsEnd(r) ==
    /\ r \in Suspended("getQuestionByCategorySlug")
    /\ Succeeded(getQuestionByCategorySlugRead(r.categoryId))
    /\ Resume(r)
    /\ UNCHANGED <<categories, questions, catSeq, qSeq, gone, fnArg, fnRes>>

(***************************************************************************)
(* Specifications.                                                         *)
(***************************************************************************)
\* the store after the migrations: both tables empty, no request in flight
Init ==
    /\ categories = {}
    /\ questions = {}
    /\ catSeq = 0
    /\ qSeq = 0
    /\ req = EmptyBag
    /\ gone = {}
    /\ fnArg = [fn |-> "none"]
    /\ fnRes = NoResult

Next ==
    \/ GetCategories
    \/ GetQuestions
    \/ \E slug \in SlugParams : GetCategory(slug)
    \/ \E body \in CategoryBodies : PostCategory(body)
    \/ \E slug \in SlugParams, body \in CategoryBodies : PatchCategoryBegin(slug, body)
    \/ \E r \in BagToSet(req) : PatchCategoryEnd(r)
    \/ \E slug \in SlugParams : DeleteCategoryBegin(slug)
    \/ \E r \in BagToSet(req) : DeleteCategoryEnd(r)
    \/ \E seg \in IdSegments : GetQuestion(seg)
    \/ \E body \in QuestionCreateBodies : PostQuestion(body)
    \/ \E seg \in IdSegments, body \in QuestionUpdateBodies : PatchQuestionBegin(seg, body)
    \/ \E r \in BagToSet(req) : PatchQuestionEnd(r)
    \/ \E seg \in IdSegments : DeleteQuestionBegin(seg)
    \/ \E r \in BagToSet(req) : DeleteQuestionEnd(r)
    \/ \E slug \in SlugParams : GetCategoryQuestionsBegin(slug)
    \/ \E r \in BagToSet(req) : GetCategoryQuestionsEnd(r)

Spec == Init /\ [][Next]_vars

\* a category table holding the rows with the given ids; deletes leave gaps in the ids
CategoryRow(id) == [id |-> id, title |-> Rep("b", id + 2), slug |-> Rep("b", id + 2)]
TableOf(ids) == { CategoryRow(id) : id \in ids }
HighestId(ids) == IF ids = {} THEN 0 ELSE CHOOSE i \in ids : \A j \in ids : j <= i

\* the tables of the paged read: every choice of ids up to MaxTableIds, and one table
\* with one row more than the default page
TableIds == (SUBSET (1..MaxTableIds)) \cup {1..(DefaultLimit + 1)}

PageInputs ==
    { [fn |-> "getCategories", arg |-> [limit |-> l, offset |-> o]] :
        l \in (0..MaxTableIds) \cup {DefaultLimit}, o \in 0..(MaxTableIds + 1) }

ApplyGetCategories ==
    Apply("getCategories", getCategories(fnArg.arg.limit, fnArg.arg.offset))

\* the pure functions of the validation layer and the slug derivation on bounded inputs,
\* and the paged read on bounded tables
FnInit ==
    /\ questions = {}
    /\ qSeq = 0
    /\ req = EmptyBag
    /\ gone = {}
    /\ fnRes = NoResult
    /\ \/ fnArg \in FnInputs /\ categories = {} /\ catSeq = 0
       \/ /\ fnArg \in PageInputs
          /\ \E ids \in TableIds : categories = TableOf(ids) /\ catSeq = HighestId(ids)

FnNext ==
    \/ ApplyGetCategories
    \/ ApplySlugify
    \/ ApplyXss
    \/ ApplyValidateCategoryForCreate
    \/ ApplyValidateCategoryForUpdate
    \/ ApplyValidateQuestionForCreate
    \/ ApplyValidateQuestionForUpdate

FnSpec == FnInit /\ [][FnNext]_vars

(***************************************************************************)
(* Slug derivation (FnSpec).                                               *)
(***************************************************************************)
\* position by position: a whitespace character yields a hyphen when it opens a run
\* and nothing otherwise; any other character yields those code units of its
\* lower-case form that are word characters or hyphens
SlugImage(s, i) ==
    IF s[i] \in WhitespaceChars
    THEN IF i = 1 \/ s[i - 1] \notin WhitespaceChars THEN <<"-">> ELSE <<>>
    ELSE SelectSeq(toLowerChar(s[i]), LAMBDA c : c \in WordChars \cup {"-"})

RECURSIVE SlugFrom(_, _)
SlugFrom(s, i) == IF i > Len(s) THEN <<>> ELSE SlugImage(s, i) \o SlugFrom(s, i + 1)

ExpectedSlug(s) == SlugFrom(s, 1)

SlugOfWhatIsHtml == <<"w","h","a","t","-","i","s","-","h","t","m","l">>
SlugOfMultipleSpaces ==
    <<"-","m","u","l","t","i","p","l","e","-","s","p","a","c","e","s","-">>
TrimmedSlugOfMultipleSpaces ==
    <<"m","u","l","t","i","p","l","e","-","s","p","a","c","e","s">>

Slugified == fnArg.fn = "slugify" /\ fnRes.done

\* C1 as stated: the slug is the lower-cased text with every whitespace run replaced by
\* one hyphen and every other non-word character stripped, "What is HTML?" maps to
\* "what-is-html" and "  Multiple   Spaces  " maps to "multiple-spaces".
C1_AsStated ==
    Slugified =>
        /\ fnRes.val = ExpectedSlug(fnArg.arg)
        /\ fnArg.arg = WhatIsHtml => fnRes.val = SlugOfWhatIsHtml
        /\ fnArg.arg = MultipleSpaces => fnRes.val = TrimmedSlugOfMultipleSpaces

\* C1 amended: as stated, except that leading and trailing whitespace runs become a
\* hyphen each, so "  Multiple   Spaces  " maps to "-multiple-spaces-".
C1_SlugDerivation ==
    Slugified =>
        /\ fnRes.val = ExpectedSlug(fnArg.arg)
        /\ fnArg.arg = WhatIsHtml => fnRes.val = SlugOfWhatIsHtml
        /\ fnArg.arg = MultipleSpaces => fnRes.val = SlugOfMultipleSpaces

C1_Witness == Slugified /\ fnArg.arg = MultipleSpaces

(***************************************************************************)
(* Validation layer (FnSpec).                                              *)
(***************************************************************************)
WellFormedText(data, key) ==
    /\ key \in DOMAIN data.f
    /\ data.f[key].t = "string"
    /\ Len(data.f[key].v) \in MinTextLen..MaxTextLen

Validated(name) == fnArg.fn = name /\ fnRes.done

\* C7 as stated: validateCategoryForUpdate succeeds on an object without a title and
\* rejects a payload only when a supplied title is no string of length 3 to 1024.
C7_TitleOptional ==
    (Validated("validateCategoryForUpdate") /\ fnArg.arg.t = "object") =>
        (fnRes.val.success <=>
            ("title" \in DOMAIN fnArg.arg.f => WellFormedText(fnArg.arg, "title")))

\* C8 as stated: validateCategoryForCreate succeeds exactly on a title of 3 to 1024
\* characters, validateQuestionForCreate exactly when question and answer are such
\* texts and categoryId is an integer.
C8_CreateValidators ==
    /\ Validated("validateCategoryForCreate") =>
           (fnRes.val.success <=>
               (fnArg.arg.t = "object" /\ WellFormedText(fnArg.arg, "title")))
    /\ Validated("validateQuestionForCreate") =>
           (fnRes.val.success <=>
               /\ fnArg.arg.t = "object"
               /\ WellFormedText(fnArg.arg, "question")
               /\ WellFormedText(fnArg.arg, "answer")
               /\ "categoryId" \in DOMAIN fnArg.arg.f
               /\ fnArg.arg.f["categoryId"].t = "number"
               /\ fnArg.arg.f["categoryId"].num % fnArg.arg.f["categoryId"].den = 0)

(***************************************************************************)
(* Slugs of created questions (Spec).                                      *)
(***************************************************************************)
QuestionOf(body) == body.f["question"].v
TitleOf(body) == body.f["title"].v

\* what a step did, read off the two states: an insert reached a table (it drew an id),
\* a suspended call executed its second store call
CategoryInsertTried == catSeq' # catSeq
QuestionInsertTried == qSeq' # qSeq
CallResumed == BagCardinality(req') < BagCardinality(req)
CallSuspended == BagCardinality(req') > BagCardinality(req)

\* C2 as stated: a question created from a valid payload is stored and returned with the
\* sanitized question text and with the slug derived from that sanitized, stored text.
C2_SlugOfSanitized ==
    [][QuestionInsertTried => \A body \in QuestionCreateBodies :
          (PostQuestionResponse(body).status = 201 /\ PostQuestion(body)) =>
              LET created == PostQuestionResponse(body).body
              IN  /\ created \in questions'
                  /\ created.question = xss(QuestionOf(body))
                  /\ created.slug = slugify(created.question)]_vars

(***************************************************************************)
(* Uniqueness (Spec).                                                      *)
(***************************************************************************)
UniqueRows ==
    /\ \A c, d \in categories :
           c # d => (c.id # d.id /\ c.slug # d.slug /\ c.title # d.title)
    /\ \A q, o \in questions : q # o => (q.id # o.id /\ q.slug # o.slug)

TablesUnchanged == categories' = categories /\ questions' = questions

CategoryCollisionRefused ==
    /\ CategoryInsertTried => \A body \in CategoryBodies :
           (/\ PostCategoryResponse(body).status # 400
            /\ PostCategory(body)
            /\ \E c \in categories :
                   c.title = TitleOf(body) \/ c.slug = slugify(TitleOf(body)))
           => (/\ createCategory(validateCategoryForCreate(body).data) = Threw("P2002")
               /\ TablesUnchanged)
    /\ CallResumed => \A r \in Suspended("updateCategory") :
           (/\ PatchCategoryEnd(r)
            /\ \E c \in categories : c.slug = r.slug
            /\ \E c \in categories :
                   c.slug # r.slug /\ (c.title = r.data.title \/ c.slug = r.data.slug))
           => (/\ updateCategoryWrite(r.slug, r.data) = Threw("P2002")
               /\ TablesUnchanged)

QuestionCollisionRefused ==
    /\ QuestionInsertTried => \A body \in QuestionCreateBodies :
           (/\ PostQuestionResponse(body).status # 400
            /\ PostQuestion(body)
            /\ \E q \in questions :
                   q.slug = createQuestionData(validateQuestionForCreate(body).data).slug)
           => LET thrown == createQuestion(validateQuestionForCreate(body).data)
              IN  /\ thrown.kind = "error"
                  /\ IsInteger(body.f["categoryId"]) => thrown = Threw("P2002")
                  /\ TablesUnchanged
    /\ CallResumed => \A r \in Suspended("updateQuestion") :
           (/\ PatchQuestionEnd(r)
            /\ \E q \in questions : q.id = r.id
            /\ \E q \in questions : q.id # r.id /\ q.slug = r.data.slug)
           => (/\ updateQuestionWrite(r.id, r.data) = Threw("P2002")
               /\ TablesUnchanged)

\* C3: in every reachable state, under every interleaving of the calls, no two categories
\* share a slug or a title and no two questions share a slug; a create or update whose
\* slug or title collides with another row throws the uniqueness error of the store
\* (P2002) and leaves both tables as they were.
C3_Uniqueness ==
    /\ []UniqueRows
    /\ [][CategoryCollisionRefused /\ QuestionCollisionRefused]_vars

\* a category insert reached the table and was refused: one id is drawn and missing
\* although nothing was deleted
C3_Witness ==
    /\ catSeq = 2
    /\ Cardinality(categories) = 1
    /\ gone = {}

(***************************************************************************)
(* Referential integrity (Spec).                                           *)
(***************************************************************************)
ReferencesHold ==
    \A q \in questions : \E c \in categories : c.id = q.categoryId

MatchesNoCategory(v) ==
    ~ (IsInteger(v) /\ \E c \in categories : c.id = IntOf(v))

DanglingRefused ==
    /\ CallResumed => \A r \in Suspended("deleteCategory") :
           (/\ DeleteCategoryEnd(r)
            /\ \E c \in categories :
                   c.slug = r.slug /\ \E q \in questions : q.categoryId = c.id)
           => (/\ deleteCategoryWrite(r.slug) = Threw("P2003")
               /\ TablesUnchanged)
    /\ QuestionInsertTried => \A body \in QuestionCreateBodies :
           (/\ PostQuestionResponse(body).status # 400
            /\ PostQuestion(body)
            /\ MatchesNoCategory(body.f["categoryId"]))
           => (/\ PostQuestionResponse(body).status = 500
               /\ TablesUnchanged)
    /\ CallResumed => \A r \in Suspended("updateQuestion") :
           (PatchQuestionEnd(r) /\ MatchesNoCategory(r.data.categoryId))
           => (/\ updateQuestionWrite(r.id, r.data).kind = "error"
               /\ TablesUnchanged)

\* a categoryId that is no integer is refused by the client before the store is reached:
\* the call throws, the handler answers 500, and no step is taken on the tables
NonIntegerRefused ==
    \A body \in QuestionCreateBodies :
        (PostQuestionResponse(body).status # 400 /\ ~ IsInteger(body.f["categoryId"]))
        => (/\ createQuestion(validateQuestionForCreate(body).data).kind = "error"
            /\ PostQuestionResponse(body).status = 500)

\* C4: every stored question references an existing category; deleting a category that a
\* question still references throws the reference error (P2003) and removes nothing, and
\* creating or updating a question with a categoryId that matches no category fails and
\* leaves both tables as they were.
C4_ReferentialIntegrity ==
    /\ []ReferencesHold
    /\ []NonIntegerRefused
    /\ [][DanglingRefused]_vars

\* a delete of a category that a question references is about to be executed
C4_Witness ==
    \E r \in Suspended("deleteCategory") :
        \E c \in categories : c.slug = r.slug /\ \E q \in questions : q.categoryId = c.id

(***************************************************************************)
(* Partial updates of a question (Spec).                                   *)
(***************************************************************************)
\* the changes that reach updateQuestion: the validated data of the accepted payloads
QuestionChanges ==
    { validateQuestionForUpdate(body).data :
        body \in { b \in QuestionUpdateBodies : ~ PatchQuestionRejects(<<"1">>, b) } }

\* `new` keeps the id of `old` and every field that `changes` does not name
KeepsAbsentFields(changes, old, new) ==
    /\ new.id = old.id
    /\ "answer" \notin DOMAIN changes => new.answer = old.answer
    /\ "categoryId" \notin DOMAIN changes => new.categoryId = old.categoryId
    /\ "question" \notin DOMAIN changes =>
           (new.question = old.question /\ new.slug = old.slug)

\* the row that questions.update writes for the held arguments
RowOf(id, data) ==
    [id |-> id, question |-> data.question, answer |-> data.answer,
     slug |-> data.slug, categoryId |-> IntOf(data.categoryId)]

\* the call as a whole, in every state and for every stored question and accepted changes
UpdateKeepsAbsentFields ==
    \A q \in questions, changes \in QuestionChanges :
        LET updated == updateQuestion(q.id, changes)
        IN  /\ updated # Null
            /\ Succeeded(updated) => KeepsAbsentFields(changes, q, updated.val)

\* the first half of the call: the step leaves the tables alone, and the arguments it
\* holds for the write are those computed from the row it found, which keep the absent
\* fields of that row
HeldDataKeepsAbsentFields ==
    CallSuspended => \A r \in BagToSet(req') :
        (r.pc = "updateQuestion" /\ CopiesIn(r, req') > CopiesIn(r, req)) =>
            /\ TablesUnchanged
            /\ \E q \in questions :
                   /\ q.id = r.id
                   /\ \E changes \in QuestionChanges :
                          r.data = updateQuestionData(changes, q)
                   /\ \A changes \in QuestionChanges :
                          r.data = updateQuestionData(changes, q)
                          => KeepsAbsentFields(changes, q, RowOf(r.id, r.data))

\* the second half: the write replaces the row with that id by the held arguments and
\* touches no other question and no category
WriteTouchesOneRow ==
    CallResumed => \A r \in Suspended("updateQuestion") :
        PatchQuestionEnd(r) =>
            /\ categories' = categories
            /\ \A q \in questions : q.id # r.id => q \in questions'
            /\ \A q \in questions' : q.id # r.id => q \in questions
            /\ { q.id : q \in questions' } = { q.id : q \in questions }
            /\ Succeeded(updateQuestionWrite(r.id, r.data)) => RowOf(r.id, r.data) \in questions'
            /\ ~ Succeeded(updateQuestionWrite(r.id, r.data)) => questions' = questions

\* C5: updateQuestion on an existing question keeps the id and every field that changes
\* does not name (answer, categoryId, question together with slug) at the value of the
\* row the call found, and its write modifies no other question and no category.
C5_PartialUpdateFrame ==
    /\ []UpdateKeepsAbsentFields
    /\ [][HeldDataKeepsAbsentFields /\ WriteTouchesOneRow]_vars

\* an update that named only the question text was written: the row has the slug that
\* only an update derives, and still the answer it was created with
C5_Witness ==
    \E q \in questions :
        /\ q.question = QTextEscaped
        /\ q.slug = slugify(QTextEscaped)
        /\ q.answer = AnswerYes

(***************************************************************************)
(* Slug recomputation (Spec).                                              *)
(***************************************************************************)
\* C6 as stated: an update whose supplied title, or supplied question text, equals the
\* value stored for that record leaves the record's slug unchanged.
C6_SlugOnlyOnChange ==
    /\ \A c \in categories, body \in CategoryBodies :
           (~ PatchCategoryRejects(body) /\ TitleOf(body) = c.title) =>
               LET updated == updateCategory(c.slug, validateCategoryForUpdate(body).data)
               IN  Succeeded(updated) => updated.val.slug = c.slug
    /\ \A q \in questions, body \in QuestionUpdateBodies :
           (/\ ~ PatchQuestionRejects(<<"1">>, body)
            /\ "question" \in DOMAIN body.f
            /\ QuestionOf(body) = q.question) =>
               LET updated == updateQuestion(q.id, validateQuestionForUpdate(body).data)
               IN  Succeeded(updated) => updated.val.slug = q.slug

(***************************************************************************)
(* Delete, then fetch (Spec).                                              *)
(***************************************************************************)
GoneSlugs == { g.slug : g \in { h \in gone : "slug" \in DOMAIN h } }
GoneIds == { g.id : g \in { h \in gone : "id" \in DOMAIN h } }

\* a delete that returns the deleted record answers 204, and the fetch that follows it
\* finds nothing
DeleteThenNotFound ==
    CallResumed =>
        /\ \A r \in Suspended("deleteCategory") :
               (DeleteCategoryEnd(r) /\ Succeeded(deleteCategoryWrite(r.slug))) =>
                   /\ DeleteCategoryResponse(deleteCategoryWrite(r.slug)) = Answer(204)
                   /\ deleteCategoryWrite(r.slug).val.slug = r.slug
                   /\ \A c \in categories' : c.slug # r.slug
                   /\ r.slug \in GoneSlugs'
        /\ \A r \in Suspended("deleteQuestion") :
               (DeleteQuestionEnd(r) /\ Succeeded(deleteQuestionWrite(r.id))) =>
                   /\ DeleteQuestionResponse(deleteQuestionWrite(r.id)) = Answer(204)
                   /\ deleteQuestionWrite(r.id).val.id = r.id
                   /\ \A q \in questions' : q.id # r.id
                   /\ r.id \in GoneIds'

\* POST /categories answers 201 with the record that a following GET by its slug returns
CreateThenFound ==
    CategoryInsertTried => \A body \in CategoryBodies :
        (PostCategoryResponse(body).status = 201 /\ PostCategory(body)) =>
            LET created == PostCategoryResponse(body).body
            IN  /\ created \in categories'
                /\ \A c \in categories' : c.slug = created.slug => c = created

\* the fetches, in every state: 200 with the stored record, 404 when there is none
FetchAnswers ==
    /\ \A slug \in SlugParams :
           GetCategoryResponse(slug) =
               IF \E c \in categories : c.slug = slug
               THEN AnswerWith(200, CHOOSE c \in categories : c.slug = slug)
               ELSE Answer(404)
    /\ \A id \in 1..MaxQSeq :
           (getQuestionById(id) = Null) <=> (\A q \in questions : q.id # id)
    /\ \A id \in GoneIds : getQuestionById(id) = Null

Reappears(slug) ==
    /\ \A c \in categories : c.slug # slug
    /\ \E c \in categories' : c.slug = slug

UpdateProduces(slug) ==
    CallResumed /\ \E r \in Suspended("updateCategory") :
        PatchCategoryEnd(r) /\ r.data.slug = slug

\* C9 as stated: after a delete that returns the record the fetch finds nothing, and the
\* slug stays not-found until a create produces it again; POST answers 201 and the
\* following GET returns the same record, DELETE answers 204 and the following GET 404.
C9_GoneUntilCreate ==
    /\ []FetchAnswers
    /\ [][/\ DeleteThenNotFound
          /\ CreateThenFound
          /\ \A slug \in GoneSlugs : Reappears(slug) => CategoryInsertTried]_vars

\* C9 amended: as stated, except that the slug of a deleted category stays not-found
\* until a create or an update of another category produces it again; the id of a
\* deleted question is never found again.
C9_GoneUntilCreateOrUpdate ==
    /\ []FetchAnswers
    /\ [][/\ DeleteThenNotFound
          /\ CreateThenFound
          /\ \A slug \in GoneSlugs :
                 Reappears(slug) => (CategoryInsertTried \/ UpdateProduces(slug))]_vars

\* a category was deleted and its slug is found again, on a category that was not
\* created after the delete: an update produced the slug
C9_Witness ==
    \E slug \in GoneSlugs : \E c \in categories :
        /\ c.slug = slug
        /\ catSeq = MaxCatSeq
        /\ c.id < MaxCatSeq
        /\ \A d \in categories : d = c

(***************************************************************************)
(* Questions of a category (Spec).                                         *)
(***************************************************************************)
Ascending(rows) == \A i, j \in 1..Len(rows) : i < j => rows[i].id < rows[j].id

Elements(rows) == { rows[i] : i \in 1..Len(rows) }

\* the call as a whole, in every state: null exactly when no category has the slug,
\* otherwise the questions of that category and no others, by ascending id
ListsQuestionsOfCategory ==
    \A slug \in SlugParams :
        LET found == getQuestionByCategorySlug(slug)
        IN  IF \A c \in categories : c.slug # slug
            THEN found = Null /\ GetCategoryQuestionsResponse(found) = Answer(404)
            ELSE /\ found # Null
                 /\ Succeeded(found)
                 /\ GetCategoryQuestionsResponse(found) = AnswerWith(200, found.val)
                 /\ \E c \in categories :
                        /\ c.slug = slug
                        /\ Elements(found.val) = { q \in questions : q.categoryId = c.id }
                 /\ Ascending(found.val)

\* the second half of the call, whatever happened to the tables since the lookup: a
\* sequence, never null, of the questions that now have the category id found
SuspendedListing ==
    \A r \in Suspended("getQuestionByCategorySlug") :
        LET found == getQuestionByCategorySlugRead(r.categoryId)
        IN  /\ Succeeded(found)
            /\ GetCategoryQuestionsResponse(found).status = 200
            /\ Elements(found.val) = { q \in questions : q.categoryId = r.categoryId }
            /\ Ascending(found.val)

\* C10: getQuestionByCategorySlug returns null (HTTP 404) exactly when no category has
\* the slug, and otherwise the sequence of exactly the questions whose categoryId is that
\* category's id, by ascending id; for a category without questions the empty sequence
\* (HTTP 200), never null.
C10_QuestionsOfCategory == ListsQuestionsOfCategory /\ SuspendedListing

\* the listing of a category without questions is under way while another category
\* has questions
C10_Witness ==
    \E r \in Suspended("getQuestionByCategorySlug") :
        /\ \E c \in categories : c.id = r.categoryId
        /\ \A q \in questions : q.categoryId # r.categoryId
        /\ questions # {}

(***************************************************************************)
(* Paged read of the categories (FnSpec).                                  *)
(***************************************************************************)
PageCalled == fnArg.fn = "getCategories" /\ fnRes.done

RowsBefore(row) == { c \in categories : c.id < row.id }

\* `page` holds stored rows; the row at position i has exactly offset + i - 1 stored rows
\* of smaller id; and the page ends with the table or after `limit` rows
IsPage(page, limit, offset) ==
    LET rest == Cardinality(categories) - offset
    IN  /\ Elements(page) \subseteq categories
        /\ Len(page) = IF rest < 0 THEN 0 ELSE IF limit < rest THEN limit ELSE rest
        /\ \A i \in 1..Len(page) : Cardinality(RowsBefore(page[i])) = offset + i - 1

\* the pages of one size from `offset` on, one after the other
RECURSIVE PagesFrom(_, _)
PagesFrom(limit, offset) ==
    IF getCategories(limit, offset) = <<>> THEN <<>>
    ELSE getCategories(limit, offset) \o PagesFrom(limit, offset + limit)

\* C11: getCategories(limit, offset) returns the stored categories by ascending id with the
\* first offset rows skipped and at most limit rows; consecutive pages of one size are
\* disjoint and together make up the whole id-ordered list; the table is left as it was.
C11_Pagination ==
    PageCalled =>
        LET limit == fnArg.arg.limit
            offset == fnArg.arg.offset
        IN  /\ IsPage(fnRes.val, limit, offset)
            /\ Ascending(fnRes.val)
            /\ limit >= 1 =>
                   /\ Elements(fnRes.val) \cap Elements(getCategories(limit, offset + limit)) = {}
                   /\ IsPage(PagesFrom(limit, 0), Cardinality(categories), 0)
            /\ \E ids \in TableIds : categories = TableOf(ids) /\ catSeq = HighestId(ids)

\* the second page of two rows of a table of four
C11_Witness ==
    /\ PageCalled
    /\ fnArg.arg = [limit |-> 2, offset |-> 2]
    /\ Cardinality(categories) = 4
    /\ Len(fnRes.val) = 2

\* C12 as stated: GET /categories answers 200 with all the categories in the store,
\* whatever their number.
C12_ListsAllCategories ==
    (PageCalled /\ fnArg.arg = [limit |-> DefaultLimit, offset |-> DefaultOffset]) =>
        /\ GetCategoriesResponse = AnswerWith(200, fnRes.val)
        /\ Elements(GetCategoriesResponse.body) = categories

(***************************************************************************)
(* The id path segment (Spec).                                             *)
(***************************************************************************)
IsNumeric(seg) == seg # <<>> /\ \A i \in 1..Len(seg) : seg[i] \in Digits

\* C13 as stated: GET, PATCH and DELETE on /questions/:id answer 400 whenever the id
\* segment is not numeric, "1abc" included, and then no call reaches the store.
C13_NonNumericIdRejected ==
    \A seg \in IdSegments :
        ~ IsNumeric(seg) =>
            /\ GetQuestionResponse(seg) = Answer(400)
            /\ DeleteQuestionRoute(seg) = Answer(400)
            /\ \A body \in QuestionUpdateBodies : PatchQuestionRoute(seg, body) = Answer(400)

(***************************************************************************)
(* Rejected bodies (Spec).                                                 *)
(***************************************************************************)
RejectedCategoryCreate(body) == body = BadJson \/ ~ validateCategoryForCreate(body).success
RejectedCategoryUpdate(body) == body = BadJson \/ ~ validateCategoryForUpdate(body).success
RejectedQuestionCreate(body) == body = BadJson \/ ~ validateQuestionForCreate(body).success
RejectedQuestionUpdate(body) == body = BadJson \/ ~ validateQuestionForUpdate(body).success

\* the four routes answer 400 to an unparsable or invalid body, in every state
RejectedBodiesAnswered ==
    /\ \A body \in CategoryBodies :
           /\ RejectedCategoryCreate(body) => PostCategoryResponse(body) = Answer(400)
           /\ RejectedCategoryUpdate(body) =>
                  \A slug \in SlugParams : PatchCategoryRoute(slug, body) = Answer(400)
    /\ \A body \in QuestionCreateBodies :
           RejectedQuestionCreate(body) => PostQuestionResponse(body) = Answer(400)
    /\ \A body \in QuestionUpdateBodies :
           RejectedQuestionUpdate(body) =>
               \A seg \in IdSegments : PatchQuestionRoute(seg, body) = Answer(400)

\* no step that draws an id, suspends a call at the store or changes a table is the
\* handling of a rejected body
RejectedBodiesTouchNothing ==
    /\ CategoryInsertTried =>
           \A body \in CategoryBodies : RejectedCategoryCreate(body) => ~ PostCategory(body)
    /\ QuestionInsertTried =>
           \A body \in QuestionCreateBodies :
               RejectedQuestionCreate(body) => ~ PostQuestion(body)
    /\ CallSuspended =>
           /\ \A body \in CategoryBodies : RejectedCategoryUpdate(body) =>
                  \A slug \in SlugParams : ~ PatchCategoryBegin(slug, body)
           /\ \A body \in QuestionUpdateBodies : RejectedQuestionUpdate(body) =>
                  \A seg \in IdSegments : ~ PatchQuestionBegin(seg, body)

\* C14: POST /categories, PATCH /categories/:slug, POST /questions and PATCH
\* /questions/:id answer 400 to a body that is unparsable or fails validation, and the
\* handling of such a request makes no store call: no id is drawn, no lookup is made,
\* no table changes.
C14_RejectedBeforeStore ==
    /\ []RejectedBodiesAnswered
    /\ [][RejectedBodiesTouchNothing]_vars

\* both tables hold rows, a call is suspended at the store, and the rejected bodies of
\* all four routes are answered 400
C14_Witness ==
    /\ categories # {} /\ questions # {} /\ req # EmptyBag
    /\ PostCategoryResponse(BadJson) = Answer(400)
    /\ PatchCategoryRoute(slugify(TitleWeb), EmptyObject) = Answer(400)
    /\ PostQuestionResponse(EmptyObject) = Answer(400)
    /\ PatchQuestionRoute(<<"1">>, JObject("answer" :> JString(TooShort))) = Answer(400)

(***************************************************************************)
(* Storage failures (Spec).                                                *)
(***************************************************************************)
Failed(r) == r # Null /\ r.kind = "error"

\* the service call of `route` threw: the handler answers `answer` from its catch block
CaughtAndLogged(route, thrown, answer) ==
    Failed(thrown) =>
        /\ answer = Answer(Caught(route).status)
        /\ Caught(route).logged

\* C15 as stated: every storage failure raised while a route is handled is caught by the
\* route's handler, logged, and answered 500, for every route handler.
C15_FailuresCaughtAndLogged ==
    /\ \A body \in CategoryBodies :
           ~ RejectedCategoryCreate(body) =>
               CaughtAndLogged("POST /categories",
                               createCategory(validateCategoryForCreate(body).data),
                               PostCategoryResponse(body))
    /\ \A body \in QuestionCreateBodies :
           ~ RejectedQuestionCreate(body) =>
               CaughtAndLogged("POST /questions",
                               createQuestion(validateQuestionForCreate(body).data),
                               PostQuestionResponse(body))
    /\ \A r \in Suspended("updateCategory") :
           CaughtAndLogged("PATCH /categories/:slug", updateCategoryWrite(r.slug, r.data),
                           PatchCategoryResponse(updateCategoryWrite(r.slug, r.data)))
    /\ \A r \in Suspended("deleteCategory") :
           CaughtAndLogged("DELETE /categories/:slug", deleteCategoryWrite(r.slug),
                           DeleteCategoryResponse(deleteCategoryWrite(r.slug)))
    /\ \A r \in Suspended("updateQuestion") :
           CaughtAndLogged("PATCH /questions/:id", updateQuestionWrite(r.id, r.data),
                           PatchQuestionResponse(updateQuestionWrite(r.id, r.data)))
    /\ \A r \in Suspended("deleteQuestion") :
           CaughtAndLogged("DELETE /questions/:id", deleteQuestionWrite(r.id),
                           DeleteQuestionResponse(deleteQuestionWrite(r.id)))

(***************************************************************************)
(* Lookup and mutation are two store steps (Spec).                         *)
(***************************************************************************)
\* the row that a suspended call looked up is no longer there
TargetsAbsentCategory(r) == \A c \in categories : c.slug # r.slug
TargetsAbsentQuestion(r) == \A q \in questions : q.id # r.id

\* a suspended mutation whose row is gone throws the store's missing-row error, and its
\* handler answers 500, not the 404 of a failed existence check
RacedMutationFails ==
    /\ \A r \in Suspended("updateCategory") : TargetsAbsentCategory(r) =>
           /\ updateCategoryWrite(r.slug, r.data) = Threw("P2025")
           /\ PatchCategoryResponse(updateCategoryWrite(r.slug, r.data)) = Answer(500)
    /\ \A r \in Suspended("deleteCategory") : TargetsAbsentCategory(r) =>
           /\ deleteCategoryWrite(r.slug) = Threw("P2025")
           /\ DeleteCategoryResponse(deleteCategoryWrite(r.slug)) = Answer(500)
    /\ \A r \in Suspended("updateQuestion") : TargetsAbsentQuestion(r) =>
           /\ updateQuestionWrite(r.id, r.data) = Threw("P2025")
           /\ PatchQuestionResponse(updateQuestionWrite(r.id, r.data)) = Answer(500)
    /\ \A r \in Suspended("deleteQuestion") : TargetsAbsentQuestion(r) =>
           /\ deleteQuestionWrite(r.id) = Threw("P2025")
           /\ DeleteQuestionResponse(deleteQuestionWrite(r.id)) = Answer(500)

\* a call is suspended only after its existence check found the row
SuspendedAfterFound ==
    CallSuspended => \A r \in BagToSet(req') :
        CopiesIn(r, req') > CopiesIn(r, req) =>
            /\ r.pc \in {"updateCategory", "deleteCategory"} =>
                   \E c \in categories : c.slug = r.slug
            /\ r.pc \in {"updateQuestion", "deleteQuestion"} =>
                   \E q \in questions : q.id = r.id

\* the step of a raced mutation changes neither table
RacedMutationChangesNothing ==
    CallResumed =>
        /\ \A r \in Suspended("updateCategory") \cup Suspended("deleteCategory") :
               (TargetsAbsentCategory(r) /\ Resume(r)) => TablesUnchanged
        /\ \A r \in Suspended("updateQuestion") \cup Suspended("deleteQuestion") :
               (TargetsAbsentQuestion(r) /\ Resume(r)) => TablesUnchanged

\* C16: the existence check and the mutation of updateCategory, deleteCategory,
\* updateQuestion and deleteQuestion are two store steps: a call passes its check only on
\* a present row, and when another call has removed or re-keyed the row before the
\* mutation executes, the mutation throws the store's missing-row error and the handler
\* answers 500 instead of 404.  C16_Witness is the interleaving the claim speaks of.
C16_CheckThenActRace ==
    /\ []RacedMutationFails
    /\ [][SuspendedAfterFound /\ RacedMutationChangesNothing]_vars

\* two deletes of one category both passed the existence check, one has deleted the row,
\* the other is about to execute on the absent row
C16_Witness ==
    \E r \in Suspended("deleteCategory") :
        /\ r.slug \in GoneSlugs
        /\ TargetsAbsentCategory(r)

(***************************************************************************)
(* Re-keying a category (Spec).                                            *)
(***************************************************************************)
\* the write of updateCategory succeeds and derives a slug other than the one it was
\* called with: the row stored under the old slug keeps its id and carries the new title
\* and slug, the old slug is not found, no row is added or removed, and the questions
\* are as they were
RekeyKeepsRow ==
    CallResumed => \A r \in Suspended("updateCategory") :
        (/\ PatchCategoryEnd(r)
         /\ Succeeded(updateCategoryWrite(r.slug, r.data))
         /\ r.data.slug # r.slug)
        => LET old == getCategoryBySlug(r.slug).val
               new == updateCategoryWrite(r.slug, r.data).val
           IN  /\ new.id = old.id
               /\ new.title = r.data.title
               /\ new.slug = r.data.slug
               /\ new \in categories'
               /\ \A c \in categories' : c.slug = r.data.slug => c = new
               /\ \A c \in categories' : c.slug # r.slug
               /\ categories' = (categories \ {old}) \cup {new}
               /\ Cardinality(categories') = Cardinality(categories)
               /\ questions' = questions
               /\ \A q \in questions' : q.categoryId = old.id => q.categoryId = new.id

\* the same for the call run without interruption, in every state
RekeyAnswers ==
    \A c \in categories, body \in CategoryBodies :
        (~ RejectedCategoryUpdate(body) /\ slugify(TitleOf(body)) # c.slug) =>
            LET updated == updateCategory(c.slug, validateCategoryForUpdate(body).data)
            IN  Succeeded(updated) =>
                    /\ updated.val.id = c.id
                    /\ updated.val.title = TitleOf(body)
                    /\ updated.val.slug = slugify(TitleOf(body))
                    /\ PatchCategoryRoute(c.slug, body) = AnswerWith(200, updated.val)

\* C17: a successful updateCategory(oldSlug, {title}) whose derived slug differs from
\* oldSlug updates the row stored under oldSlug: the row keeps its id, is found under
\* the new slug with the new title, oldSlug is not found, the number of categories is
\* unchanged and every question still references the same id.
C17_RekeyInPlace ==
    /\ []RekeyAnswers
    /\ [][RekeyKeepsRow]_vars

\* the only category ever created has questions and was re-keyed: a second update that
\* looked it up under its old slug is still suspended
C17_Witness ==
    /\ catSeq = 1
    /\ \E c \in categories : \E r \in Suspended("updateCategory") :
           /\ r.slug # c.slug
           /\ \E q \in questions : q.categoryId = c.id

(***************************************************************************)
(* Slug of a category (Spec).                                              *)
(***************************************************************************)
SlugsDerived == \A c \in categories : c.slug = slugify(c.title)

\* a create that succeeds stores a row that the fetch by its slug returns
FreshlyCreatedFound ==
    CategoryInsertTried => \A body \in CategoryBodies :
        (PostCategoryResponse(body).status = 201 /\ PostCategory(body)) =>
            LET created == PostCategoryResponse(body).body
            IN  /\ created.slug = slugify(TitleOf(body))
                /\ created.title = TitleOf(body)
                /\ \E c \in categories' : c.slug = created.slug
                /\ (CHOOSE c \in categories' : c.slug = created.slug) = created

\* C18: from the empty store on, in every state reached by creating, updating and
\* deleting categories, the slug of each stored category is the slug derivation of its
\* stored title, and the category just created is the one found under its slug.
C18_SlugOfTitle ==
    /\ []SlugsDerived
    /\ [][FreshlyCreatedFound]_vars

\* categories whose slug differs from the title it is derived from, one of them re-keyed
\* to a slug that a deleted category had
C18_Witness ==
    /\ \E c \in categories : c.title = TitleAB /\ c.slug # c.title
    /\ \E c \in categories : c.title = TitleWeb /\ c.slug # c.title
    /\ gone # {}

(***************************************************************************)
(* Slugs as path segments (FnSpec).                                        *)
(***************************************************************************)
UrlSafeChars == { LowerLetters[i] : i \in 1..26 } \cup Digits \cup {"_", "-"}

\* C19 as stated: for every title and question text that the create validators accept,
\* the derived slug is non-empty and consists of lower-case letters, digits, underscores
\* and hyphens only.
C19_SlugUsable ==
    (Slugified /\ zText(JString(fnArg.arg))) =>
        /\ fnRes.val # <<>>
        /\ \A i \in 1..Len(fnRes.val) : fnRes.val[i] \in UrlSafeChars

====
